---- MODULE Spec2Model ----
(***************************************************************************)
(* Model of map_reducer.py: a word count computed by map / shuffle /       *)
(* reduce over two thread pools, the entry point that fetches the text and *)
(* the ranking of the most frequent words.                                 *)
(*                                                                         *)
(* A text is a sequence of one-character strings.  A dict is a sequence of *)
(* <<key, value>> pairs with distinct keys, in insertion order.            *)
(***************************************************************************)
EXTENDS Integers, Sequences, FiniteSets, TLC

(* ------------------------------ bounds --------------------------------- *)

\* longest text the model fetches or hands to map_reduce
MaxLen == 5

\* max_workers of a ThreadPoolExecutor() (min(32, cpu_count + 4) on the host)
MaxWorkers == 2

\* largest top_n the ranking is called with on its own
MaxTopN == 3

\* top_n of the entry point's call of visualize_top_words
TopNMain == 11

\* largest count of an entry of a mapping the ranking is called with on its own
MaxCount == 2

(* ----------------------------- characters ------------------------------ *)

\* members of string.punctuation
Punctuation == {"."}

\* characters str.split() treats as whitespace
Whitespace == {" "}

LowerLetters == {"a", "b"}

UpperLetters == {"A"}

Chars == LowerLetters \cup UpperLetters \cup Punctuation \cup Whitespace

\* the keys of the mappings the ranking is called with on its own
RankKeys == {<<"a">>, <<"a", "a">>, <<"a", "a", "a">>}

\* the value of a name bound to None
None == <<"None">>

\* the result slot of a future that has not run
NoResult == <<<<>>, 0>>

Texts == UNION {[1..n -> Chars] : n \in 0..MaxLen}

Min(a, b) == IF a < b THEN a ELSE b

(* ------------------------------ dicts ---------------------------------- *)

Keys(d) == {d[i][1] : i \in DOMAIN d}

\* position of key k in dict d, 0 when absent
DictIndex(d, k) == IF k \in Keys(d) THEN CHOOSE i \in DOMAIN d : d[i][1] = k ELSE 0

Items(d) == {d[i] : i \in DOMAIN d}

RECURSIVE Sum(_)
Sum(s) == IF s = <<>> THEN 0 ELSE Head(s) + Sum(Tail(s))

(* --------------------------- pure functions ---------------------------- *)

\* str.lower() of one character
LowerChar(c) == IF c = "A" THEN "a" ELSE c

Lower(w) == [i \in DOMAIN w |-> LowerChar(w[i])]

remove_punctuation_tospace(t) == [i \in DOMAIN t |-> IF t[i] \in Punctuation THEN " " ELSE t[i]]

\* text.translate(str.maketrans("", "", string.punctuation))
remove_punctuation(t) == SelectSeq(t, LAMBDA c : c \notin Punctuation)

\* str.split() with no separator: skip whitespace, take the maximal run of
\* non-whitespace characters from i, repeat
RECURSIVE SplitFrom(_, _)
SplitFrom(t, i) ==
    IF i > Len(t) THEN <<>>
    ELSE IF t[i] \in Whitespace THEN SplitFrom(t, i + 1)
    ELSE LET stops == {j \in i..Len(t) : t[j] \in Whitespace}
             e == IF stops = {} THEN Len(t) + 1
                  ELSE CHOOSE j \in stops : \A k \in stops : j <= k
         IN  <<SubSeq(t, i, e - 1)>> \o SplitFrom(t, e)

split(t) == SplitFrom(t, 1)

map_function(word) == <<Lower(word), 1>>

reduce_function_len(item) == <<item[1], Len(item[2]) + 1>>

reduce_function(item) == <<item[1], Sum(item[2])>>

\* shuffled[key].append(value) on a defaultdict(list)
ShuffleInsert(d, pair) ==
    LET i == DictIndex(d, pair[1])
    IN  IF i = 0 THEN Append(d, <<pair[1], <<pair[2]>>>>)
        ELSE [d EXCEPT ![i] = <<d[i][1], Append(d[i][2], pair[2])>>]

\* dict(...) consuming one more (key, value) pair
DictSet(d, pair) ==
    LET i == DictIndex(d, pair[1])
    IN  IF i = 0 THEN Append(d, pair) ELSE [d EXCEPT ![i] = pair]

\* sorted(items, key=count, reverse=True): a stable sort, so entries of equal
\* count keep the mapping's iteration order
RECURSIVE SortedDesc(_)
SortedDesc(d) ==
    IF d = <<>> THEN <<>>
    ELSE LET rest == SortedDesc(SubSeq(d, 1, Len(d) - 1))
             x == d[Len(d)]
             before == {i \in DOMAIN rest : rest[i][2] >= x[2]}
             k == Cardinality(before)
         IN  SubSeq(rest, 1, k) \o <<x>> \o SubSeq(rest, k + 1, Len(rest))

\* s[:n] for n >= 0
SliceTo_offbyone(s, n) == SubSeq(s, 1, Min(n + 1, Len(s)))

SliceTo(s, n) == SubSeq(s, 1, Min(n, Len(s)))

\* sorted(word_counts.items(), key=lambda item: item[1], reverse=True)[:top_n]
TopN(d, n) == SliceTo(SortedDesc(d), n)

(* ------------------------------- state --------------------------------- *)

VARIABLES
    mode,            \* which caller runs: the entry point, map_reduce alone, the ranking alone
    remote,          \* what requests.get(url) meets: [ok, body]
    pc,              \* position of the main (orchestrator) thread
    calls,           \* how often get_text, map_reduce, visualize_top_words were entered
    log,             \* records handed to logging, as <<level, message>>
    text,            \* the text of __main__ / the argument of map_reduce
    words,           \* text.split()
    futures,         \* work items of the open pool: [fn, arg, state, result]
    queue,           \* the pool's work queue: indexes into futures
    workers,         \* the pool's threads: [st, task]
    shutdown,        \* the pool's shutdown flag
    cursor,          \* index of the loop the main thread is in
    mapped_values,
    shuffled,
    reduced_values,
    word_counts,     \* the mapping map_reduce returned
    top_n,
    sorted_words,
    chart,           \* the <<words, counts>> handed to plt.bar
    raised,          \* the exception that ended the process, or "none"
    run,             \* which call of map_reduce on the same text this is
    prev             \* the mapping the previous call returned

vars == <<mode, remote, pc, calls, log, text, words, futures, queue, workers,
          shutdown, cursor, mapped_values, shuffled, reduced_values,
          word_counts, top_n, sorted_words, chart, raised, run, prev>>

poolVars == <<futures, queue, workers, shutdown>>

mrVars == <<words, cursor, mapped_values, shuffled, reduced_values>>

vizVars == <<top_n, sorted_words, chart, raised>>

Workers == 1..MaxWorkers

NoThreads == [w \in Workers |-> [st |-> "off", task |-> 0]]

Alive == {w \in Workers : workers[w].st # "off"}

Running == {i \in DOMAIN futures : futures[i].state = "running"}

Log(level, msg) == log' = Append(log, <<level, msg>>)

Called(name) == calls' = [calls EXCEPT ![name] = @ + 1]

InitCommon ==
    /\ calls = [get_text |-> 0, map_reduce |-> 0, visualize_top_words |-> 0]
    /\ log = <<>>
    /\ words = <<>>
    /\ futures = <<>>
    /\ queue = <<>>
    /\ workers = NoThreads
    /\ shutdown = FALSE
    /\ cursor = 0
    /\ mapped_values = <<>>
    /\ shuffled = <<>>
    /\ reduced_values = <<>>
    /\ sorted_words = <<>>
    /\ chart = None
    /\ raised = "none"
    /\ run = 1
    /\ prev = None

\* the process started as a script (line 141)
Init ==
    /\ InitCommon
    /\ mode = "main"
    /\ remote \in [ok : {TRUE}, body : Texts] \cup [ok : {FALSE}, body : {None}]
    /\ pc = "main"
    /\ text = None
    /\ word_counts = None
    /\ top_n = 0

\* map_reduce(text) called on its own, on any text
InitMapReduce ==
    /\ InitCommon
    /\ mode = "map_reduce"
    /\ remote = [ok |-> FALSE, body |-> None]
    /\ pc = "mr_start"
    /\ text \in Texts
    /\ word_counts = None
    /\ top_n = 0

(* ---------------------------- entry point ------------------------------ *)

Truthy_always(t) == TRUE

\* bool(text) of a str or None
Truthy(t) == t # None /\ t # <<>>

\* text = get_text(url): one requests.get, no retry
MainFetchOk ==
    /\ pc = "main"
    /\ remote.ok
    /\ Called("get_text")
    /\ Log("INFO", "Successfully retrieved text")
    /\ text' = remote.body
    /\ pc' = "main_if"
    /\ UNCHANGED <<mode, remote, poolVars, mrVars, word_counts, vizVars, run, prev>>

\* requests.RequestException (raise_for_status included) is caught: None
MainFetchFail ==
    /\ pc = "main"
    /\ ~remote.ok
    /\ Called("get_text")
    /\ Log("ERROR", "Failed to retrieve text")
    /\ text' = None
    /\ pc' = "main_if"
    /\ UNCHANGED <<mode, remote, poolVars, mrVars, word_counts, vizVars, run, prev>>

\* if text: word_counts = map_reduce(text)
MainCallPipeline ==
    /\ pc = "main_if"
    /\ Truthy(text)
    /\ pc' = "mr_start"
    /\ UNCHANGED <<mode, remote, calls, log, text, poolVars, mrVars, word_counts,
                   vizVars, run, prev>>

\* else: logging.error(...)
MainSkip ==
    /\ pc = "main_if"
    /\ ~Truthy(text)
    /\ Log("ERROR", "Failed to execute MapReduce due to text retrieval failure.")
    /\ pc' = "exit"
    /\ UNCHANGED <<mode, remote, calls, text, poolVars, mrVars, word_counts,
                   vizVars, run, prev>>

(* ----------------------------- thread pool ----------------------------- *)

\* executor.map(fn, items): one future per item, queued in order; submit()
\* starts a thread per item until max_workers threads exist
Submitted(fn, n) ==
    /\ futures' = [i \in 1..n |-> [fn |-> fn, arg |-> i, state |-> "pending",
                                   result |-> NoResult]]
    /\ queue' = [i \in 1..n |-> i]
    /\ workers' = [w \in Workers |->
                     [st |-> IF w <= Min(n, MaxWorkers) THEN "idle" ELSE "off",
                      task |-> 0]]
    /\ shutdown' = FALSE

\* the call a work item makes; its argument is read when it runs
Apply(f) ==
    IF f.fn = "map" THEN map_function(words[f.arg])
    ELSE reduce_function(shuffled[f.arg])

\* a thread takes the next work item off the queue
WorkerTake(w) ==
    /\ workers[w].st = "idle"
    /\ queue # <<>>
    /\ workers' = [workers EXCEPT ![w] = [st |-> "busy", task |-> Head(queue)]]
    /\ futures' = [futures EXCEPT ![Head(queue)].state = "running"]
    /\ queue' = Tail(queue)
    /\ UNCHANGED <<mode, remote, pc, calls, log, text, shutdown, mrVars,
                   word_counts, vizVars, run, prev>>

\* work_item.run(): the function's result is stored in the item's own future
WorkerRun(w) ==
    /\ workers[w].st = "busy"
    /\ LET i == workers[w].task
       IN  futures' = [futures EXCEPT ![i].state = "finished",
                                      ![i].result = Apply(futures[i])]
    /\ workers' = [workers EXCEPT ![w] = [st |-> "idle", task |-> 0]]
    /\ UNCHANGED <<mode, remote, pc, calls, log, text, queue, shutdown, mrVars,
                   word_counts, vizVars, run, prev>>

ShouldExit_never(q, sd) == FALSE

\* a thread leaves its loop once the pool is shut down and the queue is drained
ShouldExit(q, sd) == q = <<>> /\ sd

WorkerExit(w) ==
    /\ workers[w].st = "idle"
    /\ ShouldExit(queue, shutdown)
    /\ workers' = [workers EXCEPT ![w] = [st |-> "off", task |-> 0]]
    /\ UNCHANGED <<mode, remote, pc, calls, log, text, futures, queue, shutdown,
                   mrVars, word_counts, vizVars, run, prev>>

FutureReady_nowait(f) == TRUE

\* future.result() returns once the work item has run
FutureReady(f) == f.state = "finished"

AllExited_nowait(ws) == TRUE

\* shutdown(wait=True) joins every thread of the pool
AllExited(ws) == \A w \in DOMAIN ws : ws[w].st = "off"

\* the iterator of executor.map is exhausted after its n results
IterDone(i, n) == i > n

ShuffleDone_early(i, n) == TRUE

\* the for loop of shuffle_function has consumed all n mapped pairs
ShuffleDone(i, n) == i > n

(* ----------------------------- map_reduce ------------------------------ *)

\* text = remove_punctuation(text); words = text.split()
Tokenize ==
    /\ pc = "mr_start"
    /\ Called("map_reduce")
    /\ words' = split(remove_punctuation(text))
    /\ pc' = "map_open"
    /\ UNCHANGED <<mode, remote, log, text, poolVars, cursor, mapped_values,
                   shuffled, reduced_values, word_counts, vizVars, run, prev>>

\* with ThreadPoolExecutor() as executor: executor.map(map_function, words)
MapSubmit ==
    /\ pc = "map_open"
    /\ Submitted("map", Len(words))
    /\ cursor' = 1
    /\ pc' = "map_collect"
    /\ UNCHANGED <<mode, remote, calls, log, text, words, mapped_values, shuffled,
                   reduced_values, word_counts, vizVars, run, prev>>

\* list(...) takes the results in submission order, waiting for each
MapYield ==
    /\ pc = "map_collect"
    /\ ~IterDone(cursor, Len(futures))
    /\ FutureReady(futures[cursor])
    /\ mapped_values' = Append(mapped_values, futures[cursor].result)
    /\ cursor' = cursor + 1
    /\ UNCHANGED <<mode, remote, pc, calls, log, text, poolVars, words, shuffled,
                   reduced_values, word_counts, vizVars, run, prev>>

\* leaving the with block: executor.shutdown(wait=True) sets the flag ...
MapExit ==
    /\ pc = "map_collect"
    /\ IterDone(cursor, Len(futures))
    /\ shutdown' = TRUE
    /\ pc' = "map_join"
    /\ UNCHANGED <<mode, remote, calls, log, text, futures, queue, workers, mrVars,
                   word_counts, vizVars, run, prev>>

\* ... and joins the threads; shuffle_function(mapped_values) is entered
MapJoined ==
    /\ pc = "map_join"
    /\ AllExited(workers)
    /\ cursor' = 1
    /\ pc' = "shuffle"
    /\ UNCHANGED <<mode, remote, calls, log, text, poolVars, words, mapped_values,
                   shuffled, reduced_values, word_counts, vizVars, run, prev>>

\* for key, value in mapped_values: shuffled[key].append(value)
ShuffleStep ==
    /\ pc = "shuffle"
    /\ cursor <= Len(mapped_values)
    /\ shuffled' = ShuffleInsert(shuffled, mapped_values[cursor])
    /\ cursor' = cursor + 1
    /\ UNCHANGED <<mode, remote, pc, calls, log, text, poolVars, words,
                   mapped_values, reduced_values, word_counts, vizVars, run, prev>>

\* return shuffled.items()
ShuffleReturn ==
    /\ pc = "shuffle"
    /\ ShuffleDone(cursor, Len(mapped_values))
    /\ pc' = "reduce_open"
    /\ UNCHANGED <<mode, remote, calls, log, text, poolVars, mrVars, word_counts,
                   vizVars, run, prev>>

\* with ThreadPoolExecutor() as executor: executor.map(reduce_function, shuffled_values)
ReduceSubmit ==
    /\ pc = "reduce_open"
    /\ Submitted("reduce", Len(shuffled))
    /\ cursor' = 1
    /\ pc' = "reduce_collect"
    /\ UNCHANGED <<mode, remote, calls, log, text, words, mapped_values, shuffled,
                   reduced_values, word_counts, vizVars, run, prev>>

\* dict(...) takes the (key, total) pairs in submission order
ReduceYield ==
    /\ pc = "reduce_collect"
    /\ ~IterDone(cursor, Len(futures))
    /\ FutureReady(futures[cursor])
    /\ reduced_values' = DictSet(reduced_values, futures[cursor].result)
    /\ cursor' = cursor + 1
    /\ UNCHANGED <<mode, remote, pc, calls, log, text, poolVars, words,
                   mapped_values, shuffled, word_counts, vizVars, run, prev>>

ReduceExit ==
    /\ pc = "reduce_collect"
    /\ IterDone(cursor, Len(futures))
    /\ shutdown' = TRUE
    /\ pc' = "reduce_join"
    /\ UNCHANGED <<mode, remote, calls, log, text, futures, queue, workers, mrVars,
                   word_counts, vizVars, run, prev>>

ReduceJoined ==
    /\ pc = "reduce_join"
    /\ AllExited(workers)
    /\ pc' = "mr_return"
    /\ UNCHANGED <<mode, remote, calls, log, text, poolVars, mrVars, word_counts,
                   vizVars, run, prev>>

\* logging.info(...); return reduced_values, to the entry point, which calls
\* visualize_top_words(word_counts, top_n=11)
ReturnToMain ==
    /\ pc = "mr_return"
    /\ mode = "main"
    /\ Log("INFO", "MapReduce computation completed")
    /\ word_counts' = reduced_values
    /\ top_n' = TopNMain
    /\ pc' = "viz_rank"
    /\ UNCHANGED <<mode, remote, calls, text, poolVars, mrVars, sorted_words,
                   chart, raised, run, prev>>

\* the same return, to a caller that only keeps the mapping
ReturnToCaller ==
    /\ pc = "mr_return"
    /\ mode = "map_reduce"
    /\ Log("INFO", "MapReduce computation completed")
    /\ word_counts' = reduced_values
    /\ pc' = "returned"
    /\ UNCHANGED <<mode, remote, calls, text, poolVars, mrVars, vizVars, run, prev>>

\* the caller calls map_reduce(text) once more on the same text
Rerun ==
    /\ pc = "returned"
    /\ run = 1
    /\ prev' = word_counts
    /\ run' = run + 1
    /\ word_counts' = None
    /\ words' = <<>>
    /\ futures' = <<>>
    /\ queue' = <<>>
    /\ workers' = NoThreads
    /\ shutdown' = FALSE
    /\ cursor' = 0
    /\ mapped_values' = <<>>
    /\ shuffled' = <<>>
    /\ reduced_values' = <<>>
    /\ pc' = "mr_start"
    /\ UNCHANGED <<mode, remote, calls, log, text, vizVars>>

(* ------------------------- visualize_top_words ------------------------- *)

\* sorted_words = sorted(...)[:top_n]
VizRank ==
    /\ pc = "viz_rank"
    /\ Called("visualize_top_words")
    /\ sorted_words' = TopN(word_counts, top_n)
    /\ pc' = "viz_unzip"
    /\ UNCHANGED <<mode, remote, log, text, poolVars, mrVars, word_counts, top_n,
                   chart, raised, run, prev>>

\* words, counts = zip(*sorted_words): zip() of nothing yields nothing, and
\* unpacking it into two names raises ValueError
VizUnzipRaise ==
    /\ pc = "viz_unzip"
    /\ sorted_words = <<>>
    /\ raised' = "ValueError"
    /\ pc' = "exit"
    /\ UNCHANGED <<mode, remote, calls, log, text, poolVars, mrVars, word_counts,
                   top_n, sorted_words, chart, run, prev>>

\* plt.bar(words, counts) ... plt.show(); logging.info(...)
VizRender ==
    /\ pc = "viz_unzip"
    /\ sorted_words # <<>>
    /\ chart' = <<[i \in DOMAIN sorted_words |-> sorted_words[i][1]],
                  [i \in DOMAIN sorted_words |-> sorted_words[i][2]]>>
    /\ Log("INFO", "Displayed top words graphically")
    /\ pc' = "exit"
    /\ UNCHANGED <<mode, remote, calls, text, poolVars, mrVars, word_counts,
                   top_n, sorted_words, raised, run, prev>>

(* --------------------------- specifications ---------------------------- *)

PoolNext == \E w \in Workers : WorkerTake(w) \/ WorkerRun(w) \/ WorkerExit(w)

PipelineNext ==
    \/ Tokenize \/ MapSubmit \/ MapYield \/ MapExit \/ MapJoined
    \/ ShuffleStep \/ ShuffleReturn
    \/ ReduceSubmit \/ ReduceYield \/ ReduceExit \/ ReduceJoined
    \/ PoolNext

VizNext == VizRank \/ VizUnzipRaise \/ VizRender

\* the script: fetch, count, chart
Next ==
    \/ MainFetchOk \/ MainFetchFail \/ MainCallPipeline \/ MainSkip
    \/ PipelineNext \/ ReturnToMain
    \/ VizNext

Spec == Init /\ [][Next]_vars

\* map_reduce called twice on each text
NextMapReduce == PipelineNext \/ ReturnToCaller \/ Rerun

SpecMapReduce == InitMapReduce /\ [][NextMapReduce]_vars

\* one call of map_reduce on each text, under a scheduler that eventually
\* runs a thread that can take a step
NextCall == PipelineNext \/ ReturnToCaller

FairMapReduce == InitMapReduce /\ [][NextCall]_vars /\ WF_vars(NextCall)

\* visualize_top_words called on its own, on any mapping and top_n
Mappings ==
    {d \in UNION {[1..n -> RankKeys \X (1..MaxCount)] : n \in 0..Cardinality(RankKeys)} :
        \A i, j \in DOMAIN d : i # j => d[i][1] # d[j][1]}

InitRank ==
    /\ InitCommon
    /\ mode = "rank"
    /\ remote = [ok |-> FALSE, body |-> None]
    /\ pc = "viz_rank"
    /\ text = None
    /\ word_counts \in Mappings
    /\ top_n \in 0..MaxTopN

SpecRank == InitRank /\ [][VizNext]_vars

(* ------------------------------- claims -------------------------------- *)

IsWordChar(c) == c \notin Punctuation /\ c \notin Whitespace

\* the tokens the word count is defined on
RefTokens(t) == split(remove_punctuation(t))

RefKeys(t) == {Lower(RefTokens(t)[i]) : i \in DOMAIN RefTokens(t)}

RefCount(t, k) == Cardinality({i \in DOMAIN RefTokens(t) : Lower(RefTokens(t)[i]) = k})

Values(d) == [i \in DOMAIN d |-> d[i][2]]

\* C1: the mapping map_reduce returns for a text is the word count of the
\* text: its keys are the distinct lowercased tokens, each key appears once,
\* each value is the number of tokens whose lowercase form is the key, the
\* values sum to the number of tokens, and the empty text gives the empty
\* mapping.
C1_WordCount ==
    pc = "returned" =>
        /\ Keys(word_counts) = RefKeys(text)
        /\ Cardinality(Keys(word_counts)) = Len(word_counts)
        /\ \A i \in DOMAIN word_counts :
               word_counts[i][2] = RefCount(text, word_counts[i][1])
        /\ Sum(Values(word_counts)) = Len(RefTokens(text))
        /\ (text = <<>> => word_counts = <<>>)

C1_Witness ==
    /\ pc = "returned"
    /\ Len(word_counts) = 2
    /\ \E i \in DOMAIN word_counts : word_counts[i][2] = 2
    /\ \E i \in DOMAIN text : text[i] \in UpperLetters

\* C2: a second call of map_reduce on the same text returns the same set of
\* key/value pairs as the first, under every interleaving of the worker
\* threads of both calls.
C2_SameResultTwice ==
    (pc = "returned" /\ run = 2) => Items(word_counts) = Items(prev)

C2_Witness ==
    /\ pc = "returned"
    /\ run = 2
    /\ Len(prev) = 2
    /\ Items(word_counts) = Items(prev)

\* every mapped pair has been inserted into the grouping structure
ShuffleConsumedAll ==
    /\ Len(mapped_values) = Len(words)
    /\ Sum([i \in DOMAIN shuffled |-> Len(shuffled[i][2])]) = Len(mapped_values)

\* C3: the grouping structure holds an insertion only when every Mapper work
\* item has finished; a Reducer work item has started only when the Shuffler
\* has consumed every mapped pair; and a work item runs only while the main
\* thread is inside its own phase, never during another stage.
C3_Barriers ==
    /\ (pc = "shuffle" /\ shuffled # <<>>) =>
           /\ Len(futures) = Len(words)
           /\ \A i \in DOMAIN futures :
                  futures[i].fn = "map" /\ futures[i].state = "finished"
    /\ \A i \in DOMAIN futures :
           /\ (futures[i].fn = "reduce" /\ futures[i].state # "pending") =>
                  ShuffleConsumedAll
           /\ (futures[i].fn = "reduce" /\ futures[i].state = "running") =>
                  pc \in {"reduce_collect", "reduce_join"}
           /\ (futures[i].fn = "map" /\ futures[i].state = "running") =>
                  pc \in {"map_collect", "map_join"}
    /\ pc \in {"mr_start", "map_open", "shuffle", "reduce_open", "mr_return", "returned"} =>
           Running = {}

C3_Witness ==
    /\ pc = "reduce_collect"
    /\ Cardinality(Running) = 2
    /\ Len(words) = 3

\* C4: when the retrieval fails, get_text is entered once and never again,
\* map_reduce and visualize_top_words are never entered, no mapping is
\* produced, and the process ends with an error reported.
C4_FailureSkipsPipeline ==
    ~remote.ok =>
        /\ calls.get_text = (IF pc = "main" THEN 0 ELSE 1)
        /\ calls.map_reduce = 0
        /\ calls.visualize_top_words = 0
        /\ word_counts = None
        /\ pc \in {"main", "main_if", "exit"}
        /\ (pc = "exit" => \E i \in DOMAIN log : log[i][1] = "ERROR")

C4_Witness ==
    /\ ~remote.ok
    /\ pc = "exit"
    /\ calls.get_text = 1
    /\ Len(log) = 2

\* C5: the ranking of a mapping for n >= 0 has min(n, |mapping|) entries,
\* in non-increasing order of count, all of them entries of the mapping, no
\* key twice, and no entry left out has a greater count than one kept.
C5_TopN ==
    pc # "viz_rank" =>
        /\ Len(sorted_words) = Min(top_n, Len(word_counts))
        /\ \A i, j \in DOMAIN sorted_words :
               i < j => sorted_words[i][2] >= sorted_words[j][2]
        /\ Items(sorted_words) \subseteq Items(word_counts)
        /\ Cardinality(Keys(sorted_words)) = Len(sorted_words)
        /\ \A e \in Items(word_counts) \ Items(sorted_words) :
               \A k \in Items(sorted_words) : e[2] <= k[2]

C5_Witness ==
    /\ pc = "exit"
    /\ Len(word_counts) = 3
    /\ Len(sorted_words) = 2
    /\ sorted_words[1][2] > sorted_words[2][2]
    /\ word_counts[1][2] < word_counts[3][2]

\* the maximal runs <<i, j>> of punctuation and whitespace characters of t
\* that lie between two word characters
SepRuns(t) ==
    {r \in (DOMAIN t) \X (DOMAIN t) :
        /\ r[1] <= r[2]
        /\ \A k \in r[1]..r[2] : ~IsWordChar(t[k])
        /\ r[1] > 1 /\ IsWordChar(t[r[1] - 1])
        /\ r[2] < Len(t) /\ IsWordChar(t[r[2] + 1])}

\* those of them that hold a whitespace character
WhitespaceRuns(t) ==
    {r \in SepRuns(t) : \E k \in r[1]..r[2] : t[k] \in Whitespace}

HasWordChar(t) == \E i \in DOMAIN t : IsWordChar(t[i])

RECURSIVE Flatten(_)
Flatten(ss) == IF ss = <<>> THEN <<>> ELSE Head(ss) \o Flatten(Tail(ss))

Tokenized == pc \notin {"mr_start", "main", "main_if", "exit"}

\* C6 as stated: every maximal run of punctuation and/or whitespace between
\* two word characters is exactly one boundary between two tokens, and no
\* token is empty.
C6_EveryRunSplits ==
    Tokenized =>
        /\ Len(words) = (IF HasWordChar(text) THEN Cardinality(SepRuns(text)) + 1 ELSE 0)
        /\ \A i \in DOMAIN words : words[i] # <<>>

\* C6 amended: a maximal run of punctuation and/or whitespace between two
\* word characters is exactly one boundary between two tokens when it holds
\* a whitespace character, and none when it is punctuation only (the word
\* characters on its two sides then belong to one token); the tokens hold the
\* word characters of the text in order and nothing else, and no token is
\* empty.
C6_WhitespaceRunsSplit ==
    Tokenized =>
        /\ Len(words) =
               (IF HasWordChar(text) THEN Cardinality(WhitespaceRuns(text)) + 1 ELSE 0)
        /\ Flatten(words) = SelectSeq(text, IsWordChar)
        /\ \A i \in DOMAIN words : words[i] # <<>>

C6_Witness ==
    /\ pc = "map_open"
    /\ WhitespaceRuns(text) # {}
    /\ SepRuns(text) # WhitespaceRuns(text)
    /\ Len(words) = 2

\* C7 as stated: whenever get_text returns a text, the empty text included,
\* the entry point calls map_reduce on it and reports no error.
C7_OnlyFailureSkips ==
    (remote.ok /\ pc = "exit") =>
        /\ calls.map_reduce = 1
        /\ \A i \in DOMAIN log : log[i][1] # "ERROR"

\* a work item ran in this step
ItemRan == \E i \in DOMAIN futures :
    /\ i \in DOMAIN futures'
    /\ futures[i].state = "running"
    /\ futures'[i].state = "finished"

\* C8: the grouping structure changes only in a step of the main thread
\* inside shuffle_function, with no thread of either pool alive and no work
\* item running; and a step in which a work item runs changes that item's
\* own future and nothing another work item or the main thread reads.
C8_SingleWriter ==
    [][ /\ (shuffled' # shuffled /\ pc # "returned") =>
               /\ pc = "shuffle" /\ pc' = "shuffle"
               /\ Alive = {} /\ Running = {}
               /\ UNCHANGED <<futures, workers>>
        /\ ItemRan =>
               /\ UNCHANGED <<words, mapped_values, shuffled, reduced_values, word_counts>>
               /\ Cardinality({i \in DOMAIN futures : futures'[i] # futures[i]}) = 1
      ]_vars

C8_Witness ==
    /\ pc = "shuffle"
    /\ cursor = 4
    /\ Len(shuffled) = 2

\* the chart shows exactly the entries of the mapping
ChartShowsAll ==
    /\ chart # None
    /\ {<<chart[1][i], chart[2][i]>> : i \in DOMAIN chart[1]} = Items(word_counts)
    /\ Len(chart[1]) = Len(word_counts)

\* C9 as stated: for a mapping of fewer than top_n entries, the empty one
\* included, visualize_top_words ends without an error and has passed all
\* of the mapping's entries to the chart.
C9_FewEntriesRender ==
    (pc = "exit" /\ calls.visualize_top_words = 1 /\ Len(word_counts) < top_n) =>
        /\ raised = "none"
        /\ ChartShowsAll

PoolReleased == Alive = {} /\ Running = {} /\ queue = <<>>

\* C10: every call of map_reduce returns its mapping, and whenever the main
\* thread is past a phase (in the Shuffler, opening the Reducer pool,
\* returning) the pool of that phase has no thread left.
C10_Terminates ==
    /\ (pc = "mr_start") ~> (pc = "returned" /\ word_counts # None)
    /\ [](pc \in {"shuffle", "reduce_open", "mr_return", "returned"} => PoolReleased)

C10_Witness ==
    /\ pc = "returned"
    /\ Len(words) = 3
    /\ PoolReleased

====
